---- MODULE Spec2Model ----
(***************************************************************************)
(* Verification model of the offer-extraction backend:                     *)
(*   - job lifecycle: api/ingest.py, workers/celery_tasks.py,              *)
(*     workers/processor.py, core/webhook_client.py                        *)
(*   - extraction orchestrator: core/openai_client_claude.py               *)
(***************************************************************************)
EXTENDS Integers, Sequences, FiniteSets, TLC

(***************************************************************************)
(* Bounds of the model                                                     *)
(***************************************************************************)
\* number of job ids submitted through /ingest
MaxJobs == 1
\* latest time.time() at which a direct delivery call is started
MaxStartTime == 1
\* largest number of units of work (chunks, batches) of one document
MaxUnits == 2
\* keys of a candidate map given to clean_product_data
MaxKeys == 1

(***************************************************************************)
(* Program constants                                                       *)
(***************************************************************************)
\* webhook_client.py: max_retries = 3 (attempts of one delivery)
max_retries == 3
\* celery_tasks.py: @celery_app.task(bind=True, max_retries=5)
task_max_retries == 5
\* celery_tasks.py: @celery_app.task(bind=True, max_retries=6)
retry_task_max_retries == 6
\* openai_client_claude.py, extract_offer: CHUNK_SIZE = 25000
CHUNK_SIZE == 25000
\* openai_client_claude.py, extract_from_file: batch_size = 6
batch_size == 6

Jobs == 1..MaxJobs

\* the value of an absent key / Python None
None == [kind |-> "none"]

Terminal == {"done", "failed"}

\* what requests.post can do on one attempt: raise (connection error,
\* timeout) or return a response with a status code
StatusCodes == {200, 201, 202, 204, 299, 500}
Responses ==
    {[exc |-> TRUE, status_code |-> 0]}
        \cup {[exc |-> FALSE, status_code |-> c] : c \in StatusCodes}

\* the transport behaviours drawn for the job_summary of a task execution
TaskResponses ==
    {[exc |-> TRUE, status_code |-> 0],
     [exc |-> FALSE, status_code |-> 200],
     [exc |-> FALSE, status_code |-> 500]}

\* arguments drawn for direct calls of send_consolidated_webhook
PayloadTypes == {"job_summary", "single_row", "batch_retry"}

VARIABLES
    JOB_STATUS,     \* job id -> status string ("none": key absent)
    JOB_RESULTS,    \* job id -> stored result (None: key absent)
    pc,             \* job id -> position of the job's submission / task
    payload_ok,     \* job id -> does payload_dict validate as IngestRequest
    retries,        \* job id -> self.request.retries of the current execution
    countdowns,     \* job id -> countdowns passed to self.retry so far
    now,            \* time.time(), in seconds since the first submission
    wh_posts,       \* job id -> POSTs made by the job's delivery call
    wh_sleeps,      \* job id -> time.sleep durations of the delivery call
    wh_result,      \* job id -> outcome of the delivery call
    w_in,           \* direct delivery call: its arguments and transport
    w_out,          \* direct delivery call: what it did and returned
    r_pc,           \* send_webhook_with_retry: position of the task
    r_in,           \* send_webhook_with_retry: its arguments
    r_retries,      \* send_webhook_with_retry: self.request.retries
    r_now,          \* send_webhook_with_retry: time.time() at the next run
    r_posts,        \* send_webhook_with_retry: POSTs of all its executions
    x_pc,           \* extraction: position of the orchestrator
    x_mode,         \* extraction: "text" (extract_offer) or "tabular"
    x_size,         \* extraction: len(text) or total_rows of the document
    x_oracle,       \* extraction: what the service answers for each unit
    x_idx,          \* extraction: units processed so far
    all_products,   \* extraction: all_products / all_extracted_products
    processed_row_count,
    x_log,          \* extraction: logger.error calls of the unit loops
    x_fallback,     \* extraction: answer given to the text fallback
    x_ret,          \* extraction: the returned dict
    x_calls,        \* extraction: requests sent to the interpretation service
    x_rate_calls,   \* extraction: calls of the rate lookup
    c_in,           \* cleaning: the candidate map given to clean_product_data
    c_out           \* cleaning: the record returned, or the exception raised

job_vars == <<JOB_STATUS, JOB_RESULTS, pc, payload_ok, retries, countdowns,
              now, wh_posts, wh_sleeps, wh_result>>

retry_vars == <<r_pc, r_in, r_retries, r_now, r_posts>>

webhook_vars == <<w_in, w_out, retry_vars>>

extract_vars == <<x_pc, x_mode, x_size, x_oracle, x_idx, all_products,
                  processed_row_count, x_log, x_fallback, x_ret, x_calls,
                  x_rate_calls>>

\* the cleaning of one candidate map
clean_vars == <<c_in, c_out>>

vars == <<job_vars, webhook_vars, extract_vars, clean_vars>>

(***************************************************************************)
(* Job Lifecycle Tracker (core/redis_client.py is not part of the sources; *)
(* its two operations follow section 4.6 / 6 of the specification)         *)
(***************************************************************************)
\* redis_manager.set_job_status(job_id, status): a write to a job that is
\* already in a terminal state is ignored
set_job_status(st, job_id, status) ==
    IF st[job_id] \in Terminal THEN st
    ELSE [st EXCEPT ![job_id] = status]

\* redis_manager.get_job_result(job_id): the entry {status, result|error}
\* of the job, None when nothing was stored
get_job_result(st, res, job_id) ==
    IF res[job_id] = None THEN None
    ELSE [kind |-> "entry", status |-> st[job_id], result |-> res[job_id]]

\* api/results.py, get_result: 404 "Not ready" when the job has no entry in
\* JOB_RESULTS, the entry wrapped in a one-element list otherwise
get_result(res, job_id) ==
    IF res[job_id] = None
    THEN [kind |-> "not_ready", status_code |-> 404]
    ELSE [kind |-> "data", data |-> <<res[job_id]>>]

(***************************************************************************)
(* workers/celery_tasks.py                                                 *)
(***************************************************************************)
RECURSIVE Pow2(_)
Pow2(n) == IF n = 0 THEN 1 ELSE 2 * Pow2(n - 1)

backoff(r) == 30 * Pow2(r)

(***************************************************************************)
(* core/webhook_client.py                                                  *)
(***************************************************************************)
\* f"direct_{int(time.time())}"
DirectId(t) == [kind |-> "direct", t |-> t]

BuildPayload(job_id, payload_type, data, delivery_id, t) ==
    [job_id       |-> job_id,
     delivery_id  |-> IF delivery_id # None THEN delivery_id ELSE DirectId(t),
     payload_type |-> payload_type,
     data         |-> data]

IsAcknowledged(resp) ==
    ~resp.exc /\ resp.status_code \in {200, 201, 202}

RECURSIVE SumSeq(_)
SumSeq(s) == IF s = << >> THEN 0 ELSE Head(s) + SumSeq(Tail(s))

\* AttemptLoop with the envelope rebuilt on every attempt, so that a
\* time-based delivery_id follows the clock
RECURSIVE AttemptLoop_FreshId(_, _, _, _, _, _)
AttemptLoop_FreshId(payload, outs, attempt, posts, sleeps, t) ==
    IF attempt >= max_retries
    THEN [posts |-> posts, sleeps |-> sleeps, result |-> FALSE, raised |-> FALSE]
    ELSE LET resp   == outs[attempt + 1]
             fresh  == IF payload.delivery_id.kind = "direct"
                       THEN [payload EXCEPT
                               !.delivery_id = DirectId(t + SumSeq(sleeps))]
                       ELSE payload
             posts2 == Append(posts, [payload  |-> fresh,
                                      response |-> resp,
                                      at       |-> t + SumSeq(sleeps)])
         IN  IF IsAcknowledged(resp)
             THEN [posts |-> posts2, sleeps |-> sleeps,
                   result |-> TRUE, raised |-> FALSE]
             ELSE AttemptLoop_FreshId(payload, outs, attempt + 1, posts2,
                              IF attempt < max_retries - 1
                              THEN Append(sleeps, 5 * (attempt + 1))
                              ELSE sleeps,
                              t)

\* AttemptLoop with a constant wait of 5 seconds between attempts
RECURSIVE AttemptLoop_FlatWait(_, _, _, _, _, _)
AttemptLoop_FlatWait(payload, outs, attempt, posts, sleeps, t) ==
    IF attempt >= max_retries
    THEN [posts |-> posts, sleeps |-> sleeps, result |-> FALSE, raised |-> FALSE]
    ELSE LET resp   == outs[attempt + 1]
             posts2 == Append(posts, [payload  |-> payload,
                                      response |-> resp,
                                      at       |-> t + SumSeq(sleeps)])
         IN  IF IsAcknowledged(resp)
             THEN [posts |-> posts2, sleeps |-> sleeps,
                   result |-> TRUE, raised |-> FALSE]
             ELSE AttemptLoop_FlatWait(payload, outs, attempt + 1, posts2,
                              IF attempt < max_retries - 1
                              THEN Append(sleeps, 5)
                              ELSE sleeps,
                              t)

\* the retry loop: `outs` is what the transport does on attempts 1..3,
\* t the time at which the loop was entered
RECURSIVE AttemptLoop(_, _, _, _, _, _)
AttemptLoop(payload, outs, attempt, posts, sleeps, t) ==
    IF attempt >= max_retries
    THEN [posts |-> posts, sleeps |-> sleeps, result |-> FALSE, raised |-> FALSE]
    ELSE LET resp   == outs[attempt + 1]
             posts2 == Append(posts, [payload  |-> payload,
                                      response |-> resp,
                                      at       |-> t + SumSeq(sleeps)])
         IN  IF IsAcknowledged(resp)
             THEN [posts |-> posts2, sleeps |-> sleeps,
                   result |-> TRUE, raised |-> FALSE]
             ELSE AttemptLoop(payload, outs, attempt + 1, posts2,
                              IF attempt < max_retries - 1
                              THEN Append(sleeps, 5 * (attempt + 1))
                              ELSE sleeps,
                              t)

send_consolidated_webhook(job_id, payload_type, data, delivery_id, t, outs) ==
    AttemptLoop(BuildPayload(job_id, payload_type, data, delivery_id, t),
                outs, 0, << >>, << >>, t)

(***************************************************************************)
(* api/ingest.py                                                           *)
(***************************************************************************)
\* ingest that enqueues the task without having written the status
IngestSetStatus_NoWrite(j) ==
    /\ pc[j] = "idle"
    /\ \E ok \in BOOLEAN : payload_ok' = [payload_ok EXCEPT ![j] = ok]
    /\ pc' = [pc EXCEPT ![j] = "ingest_delay"]
    /\ UNCHANGED <<JOB_STATUS, JOB_RESULTS, retries, countdowns, now,
                   wh_posts, wh_sleeps, wh_result, webhook_vars,
                   extract_vars, clean_vars>>

\* ingest, lines 13-16: the status is written for the fresh job id; the payload
\* carried by the submission is fixed here
IngestSetStatus(j) ==
    /\ pc[j] = "idle"
    /\ \E ok \in BOOLEAN : payload_ok' = [payload_ok EXCEPT ![j] = ok]
    /\ JOB_STATUS' = set_job_status(JOB_STATUS, j, "processing")
    /\ pc' = [pc EXCEPT ![j] = "ingest_delay"]
    /\ UNCHANGED <<JOB_RESULTS, retries, countdowns, now,
                   wh_posts, wh_sleeps, wh_result,
                   webhook_vars, extract_vars, clean_vars>>

\* ingest, lines 18-27: process_document_task.delay(job_id, payload) and
\* the "accepted" answer
IngestDelay(j) ==
    /\ pc[j] = "ingest_delay"
    /\ pc' = [pc EXCEPT ![j] = "queued"]
    /\ UNCHANGED <<JOB_STATUS, JOB_RESULTS, payload_ok, retries, countdowns,
                   now, wh_posts, wh_sleeps, wh_result,
                   webhook_vars, extract_vars, clean_vars>>

(***************************************************************************)
(* workers/celery_tasks.py: process_document_task                          *)
(***************************************************************************)
\* a worker takes the message (first delivery or a scheduled retry) and
\* enters the task body, line 30
TaskBegin(j) ==
    /\ pc[j] \in {"queued", "retry_wait"}
    /\ pc' = [pc EXCEPT ![j] = "t_status"]
    /\ UNCHANGED <<JOB_STATUS, JOB_RESULTS, payload_ok, retries, countdowns,
                   now, wh_posts, wh_sleeps, wh_result,
                   webhook_vars, extract_vars, clean_vars>>

\* line 31
TaskSetProcessing(j) ==
    /\ pc[j] = "t_status"
    /\ JOB_STATUS' = set_job_status(JOB_STATUS, j, "processing")
    /\ pc' = [pc EXCEPT ![j] = "t_validate"]
    /\ UNCHANGED <<JOB_RESULTS, payload_ok, retries, countdowns, now,
                   wh_posts, wh_sleeps, wh_result,
                   webhook_vars, extract_vars, clean_vars>>

\* lines 33-41: IngestRequest(**payload_dict); a ValidationError is logged
\* and re-raised into the handler of line 61
TaskValidate(j) ==
    /\ pc[j] = "t_validate"
    /\ pc' = [pc EXCEPT ![j] = IF payload_ok[j] THEN "offer_start"
                               ELSE "handler"]
    /\ UNCHANGED <<JOB_STATUS, JOB_RESULTS, payload_ok, retries, countdowns,
                   now, wh_posts, wh_sleeps, wh_result,
                   webhook_vars, extract_vars, clean_vars>>

(***************************************************************************)
(* workers/processor.py: process_offer (run by line 44 of the task)        *)
(***************************************************************************)
\* the result stored on success: offer.model_dump(); uid is a fresh uuid4
\* per execution, here the number of the execution
OfferResult(j, run) == [kind |-> "offer", uid |-> run]

\* the result stored on failure
ErrorResult(j) == [kind |-> "error", job_id |-> j, error |-> "exception"]

\* line 9
ProcessOfferStart(j) ==
    /\ pc[j] = "offer_start"
    /\ JOB_STATUS' = [JOB_STATUS EXCEPT ![j] = "processing"]
    /\ pc' = [pc EXCEPT ![j] = "offer_body"]
    /\ UNCHANGED <<JOB_RESULTS, payload_ok, retries, countdowns, now,
                   wh_posts, wh_sleeps, wh_result,
                   webhook_vars, extract_vars, clean_vars>>

\* lines 11-68: extraction and construction of the offer succeed; the
\* result is stored (line 67), then the status done (line 68)
ProcessOfferDone(j) ==
    /\ pc[j] = "offer_body"
    /\ JOB_RESULTS' = [JOB_RESULTS EXCEPT ![j] = OfferResult(j, retries[j])]
    /\ JOB_STATUS' = [JOB_STATUS EXCEPT ![j] = "done"]
    /\ pc' = [pc EXCEPT ![j] = "t_result"]
    /\ UNCHANGED <<payload_ok, retries, countdowns, now,
                   wh_posts, wh_sleeps, wh_result,
                   webhook_vars, extract_vars, clean_vars>>

\* lines 70-75: an exception of the body is caught, failed and the error
\* description are stored; nothing is re-raised
ProcessOfferFail(j) ==
    /\ pc[j] = "offer_body"
    /\ JOB_STATUS' = [JOB_STATUS EXCEPT ![j] = "failed"]
    /\ JOB_RESULTS' = [JOB_RESULTS EXCEPT ![j] = ErrorResult(j)]
    /\ pc' = [pc EXCEPT ![j] = "t_result"]
    /\ UNCHANGED <<payload_ok, retries, countdowns, now,
                   wh_posts, wh_sleeps, wh_result,
                   webhook_vars, extract_vars, clean_vars>>

(***************************************************************************)
(* process_document_task, continued                                        *)
(***************************************************************************)
\* line 46 when the read of the tracker raises (the store is reached over
\* I/O): control passes to the handler of line 61
TaskResultFault(j) ==
    /\ pc[j] = "t_result"
    /\ pc' = [pc EXCEPT ![j] = "handler"]
    /\ UNCHANGED <<JOB_STATUS, JOB_RESULTS, payload_ok, retries, countdowns,
                   now, wh_posts, wh_sleeps, wh_result,
                   webhook_vars, extract_vars, clean_vars>>

\* data of the job_summary: line 56; the stored results of processor.py
\* hold no "products" key, so the default [] is counted
SummaryData(result) ==
    [status |-> result.status, total_extracted |-> 0]

\* TaskSummary that treats an undelivered summary as a task failure
\* (raise self.retry when the delivery returns false)
TaskSummary_RetryOnFalse(j) ==
    /\ pc[j] = "t_result"
    /\ LET result == get_job_result(JOB_STATUS, JOB_RESULTS, j) IN
       IF result # None
       THEN \E outs \in [1..max_retries -> TaskResponses] :
              LET r == send_consolidated_webhook(j, "job_summary",
                           SummaryData(result), None, now, outs)
              IN  /\ wh_posts' = [wh_posts EXCEPT ![j] = r.posts]
                  /\ wh_sleeps' = [wh_sleeps EXCEPT ![j] = r.sleeps]
                  /\ wh_result' = [wh_result EXCEPT ![j] =
                                     IF r.raised THEN "raised"
                                     ELSE IF r.result THEN "true" ELSE "false"]
                  /\ now' = now + SumSeq(r.sleeps)
                  /\ pc' = [pc EXCEPT ![j] = IF r.raised \/ ~r.result
                                             THEN "handler" ELSE "returned"]
       ELSE /\ pc' = [pc EXCEPT ![j] = "returned"]
            /\ UNCHANGED <<now, wh_posts, wh_sleeps, wh_result>>
    /\ UNCHANGED <<JOB_STATUS, JOB_RESULTS, payload_ok, retries, countdowns,
                   webhook_vars, extract_vars, clean_vars>>

\* TaskSummary that reports "done" whatever the stored result says
TaskSummary_FixedStatus(j) ==
    /\ pc[j] = "t_result"
    /\ LET result == get_job_result(JOB_STATUS, JOB_RESULTS, j) IN
       IF result # None
       THEN \E outs \in [1..max_retries -> TaskResponses] :
              LET r == send_consolidated_webhook(j, "job_summary",
                           [status |-> "done", total_extracted |-> 0],
                           None, now, outs)
              IN  /\ wh_posts' = [wh_posts EXCEPT ![j] = r.posts]
                  /\ wh_sleeps' = [wh_sleeps EXCEPT ![j] = r.sleeps]
                  /\ wh_result' = [wh_result EXCEPT ![j] =
                                     IF r.raised THEN "raised"
                                     ELSE IF r.result THEN "true" ELSE "false"]
                  /\ now' = now + SumSeq(r.sleeps)
                  /\ pc' = [pc EXCEPT ![j] = IF r.raised THEN "handler"
                                             ELSE "returned"]
       ELSE /\ pc' = [pc EXCEPT ![j] = "returned"]
            /\ UNCHANGED <<now, wh_posts, wh_sleeps, wh_result>>
    /\ UNCHANGED <<JOB_STATUS, JOB_RESULTS, payload_ok, retries, countdowns,
                   webhook_vars, extract_vars, clean_vars>>

\* lines 46-59: read the result and send the job_summary
TaskSummary(j) ==
    /\ pc[j] = "t_result"
    /\ LET result == get_job_result(JOB_STATUS, JOB_RESULTS, j) IN
       IF result # None
       THEN \E outs \in [1..max_retries -> TaskResponses] :
              LET r == send_consolidated_webhook(j, "job_summary",
                           SummaryData(result), None, now, outs)
              IN  /\ wh_posts' = [wh_posts EXCEPT ![j] = r.posts]
                  /\ wh_sleeps' = [wh_sleeps EXCEPT ![j] = r.sleeps]
                  /\ wh_result' = [wh_result EXCEPT ![j] =
                                     IF r.raised THEN "raised"
                                     ELSE IF r.result THEN "true" ELSE "false"]
                  /\ now' = now + SumSeq(r.sleeps)
                  /\ pc' = [pc EXCEPT ![j] = IF r.raised THEN "handler"
                                             ELSE "returned"]
       ELSE /\ pc' = [pc EXCEPT ![j] = "returned"]
            /\ UNCHANGED <<now, wh_posts, wh_sleeps, wh_result>>
    /\ UNCHANGED <<JOB_STATUS, JOB_RESULTS, payload_ok, retries, countdowns,
                   webhook_vars, extract_vars, clean_vars>>

\* TaskHandler that grants one retry more than max_retries
TaskHandler_OneMore(j) ==
    /\ pc[j] = "handler"
    /\ JOB_STATUS' = set_job_status(JOB_STATUS, j, "failed")
    /\ IF retries[j] <= task_max_retries
       THEN /\ countdowns' = [countdowns EXCEPT
                                ![j] = Append(@, backoff(retries[j]))]
            /\ retries' = [retries EXCEPT ![j] = @ + 1]
            /\ pc' = [pc EXCEPT ![j] = "retry_wait"]
       ELSE /\ pc' = [pc EXCEPT ![j] = "dead"]
            /\ UNCHANGED <<retries, countdowns>>
    /\ UNCHANGED <<JOB_RESULTS, payload_ok, now,
                   wh_posts, wh_sleeps, wh_result,
                   webhook_vars, extract_vars, clean_vars>>

\* lines 61-64: the handler writes failed and calls self.retry, which
\* schedules a new execution or, past max_retries, raises the exception
TaskHandler(j) ==
    /\ pc[j] = "handler"
    /\ JOB_STATUS' = set_job_status(JOB_STATUS, j, "failed")
    /\ IF retries[j] < task_max_retries
       THEN /\ countdowns' = [countdowns EXCEPT
                                ![j] = Append(@, backoff(retries[j]))]
            /\ retries' = [retries EXCEPT ![j] = @ + 1]
            /\ pc' = [pc EXCEPT ![j] = "retry_wait"]
       ELSE /\ pc' = [pc EXCEPT ![j] = "dead"]
            /\ UNCHANGED <<retries, countdowns>>
    /\ UNCHANGED <<JOB_RESULTS, payload_ok, now,
                   wh_posts, wh_sleeps, wh_result,
                   webhook_vars, extract_vars, clean_vars>>

(***************************************************************************)
(* Specification of the job lifecycle                                      *)
(***************************************************************************)
Init ==
    /\ JOB_STATUS = [j \in Jobs |-> "none"]
    /\ JOB_RESULTS = [j \in Jobs |-> None]
    /\ pc = [j \in Jobs |-> "idle"]
    /\ payload_ok = [j \in Jobs |-> TRUE]
    /\ retries = [j \in Jobs |-> 0]
    /\ countdowns = [j \in Jobs |-> << >>]
    /\ now = 0
    /\ wh_posts = [j \in Jobs |-> << >>]
    /\ wh_sleeps = [j \in Jobs |-> << >>]
    /\ wh_result = [j \in Jobs |-> "none"]
    /\ w_in = None
    /\ w_out = None
    /\ r_pc = "idle"
    /\ r_in = None
    /\ r_retries = 0
    /\ r_now = 0
    /\ r_posts = << >>
    /\ x_pc = "idle"
    /\ x_mode = "text"
    /\ x_size = 0
    /\ x_oracle = << >>
    /\ x_idx = 0
    /\ all_products = << >>
    /\ processed_row_count = 0
    /\ x_log = << >>
    /\ x_fallback = None
    /\ x_ret = None
    /\ x_calls = << >>
    /\ x_rate_calls = << >>
    /\ c_in = None
    /\ c_out = None

Next ==
    \E j \in Jobs :
        \/ IngestSetStatus(j)
        \/ IngestDelay(j)
        \/ TaskBegin(j)
        \/ TaskSetProcessing(j)
        \/ TaskValidate(j)
        \/ ProcessOfferStart(j)
        \/ ProcessOfferDone(j)
        \/ ProcessOfferFail(j)
        \/ TaskResultFault(j)
        \/ TaskSummary(j)
        \/ TaskHandler(j)

Spec == Init /\ [][Next]_vars

(***************************************************************************)
(* Specification of the delivery dispatcher: send_consolidated_webhook     *)
(* called directly, for every argument and transport behaviour drawn       *)
(***************************************************************************)
GivenIds == {None, [kind |-> "given", id |-> "d1"]}

WebhookCall ==
    /\ w_in = None
    /\ \E job_id \in Jobs, payload_type \in PayloadTypes,
          delivery_id \in GivenIds, t \in 0..MaxStartTime,
          outs \in [1..max_retries -> Responses] :
         /\ w_in' = [job_id |-> job_id, payload_type |-> payload_type,
                     delivery_id |-> delivery_id, t |-> t, outs |-> outs]
         /\ w_out' = send_consolidated_webhook(job_id, payload_type,
                         [status |-> "done", total_extracted |-> 0],
                         delivery_id, t, outs)
    /\ UNCHANGED <<retry_vars, job_vars, extract_vars, clean_vars>>

InitWebhook == Init

NextWebhook == WebhookCall

SpecWebhook == InitWebhook /\ [][NextWebhook]_vars

(***************************************************************************)
(* Specification of the retried delivery task: send_webhook_with_retry     *)
(***************************************************************************)
\* send_webhook_with_retry.delay(job_id, result)
RetryTaskSubmit ==
    /\ r_pc = "idle"
    /\ \E job_id \in Jobs, result \in {None, [kind |-> "offer"]},
          t \in 0..MaxStartTime :
         /\ r_in' = [job_id |-> job_id, result |-> result]
         /\ r_now' = t
    /\ r_pc' = "queued"
    /\ UNCHANGED <<r_retries, r_posts, w_in, w_out,
                   job_vars, extract_vars, clean_vars>>

\* one execution of send_webhook_with_retry, lines 67-77: the delivery
\* call without a delivery_id, and self.retry when it returns false
\* (Retry while retries < max_retries, MaxRetriesExceededError after)
RetryTaskRun ==
    /\ r_pc = "queued"
    /\ \E outs \in [1..max_retries -> Responses] :
         LET call == send_consolidated_webhook(
                         r_in.job_id, "batch_retry",
                         IF r_in.result # None
                         THEN [results |-> r_in.result] ELSE [empty |-> TRUE],
                         None, r_now, outs)
             ends == r_now + SumSeq(call.sleeps)
         IN
           /\ r_posts' = r_posts \o
                 [i \in 1..Len(call.posts) |->
                    [delivery_id |-> call.posts[i].payload.delivery_id,
                     at          |-> call.posts[i].at,
                     retries     |-> r_retries]]
           /\ IF call.result
              THEN /\ r_pc' = "succeeded"
                   /\ r_now' = ends
                   /\ UNCHANGED r_retries
              ELSE IF r_retries < retry_task_max_retries
              THEN /\ r_pc' = "queued"
                   /\ r_retries' = r_retries + 1
                   /\ r_now' = ends + 30 * Pow2(r_retries)
              ELSE /\ r_pc' = "failed"
                   /\ r_now' = ends
                   /\ UNCHANGED r_retries
    /\ UNCHANGED <<r_in, w_in, w_out, job_vars, extract_vars, clean_vars>>

InitRetryTask == Init

NextRetryTask ==
    \/ RetryTaskSubmit
    \/ RetryTaskRun

SpecRetryTask == InitRetryTask /\ [][NextRetryTask]_vars

(***************************************************************************)
(* core/openai_client_claude.py: values                                    *)
(***************************************************************************)
\* JSON / Python values of a candidate map: strings, numbers (held in
\* hundredths: Num(1250) is 12.5), booleans, lists, maps and None
Str(s) == [kind |-> "str", s |-> s]
Num(n) == [kind |-> "num", n |-> n]
Bool(b) == [kind |-> "bool", b |-> b]
\* a number that is no multiple of a hundredth, held in units of 10^-5:
\* Micro(37512) is 0.37512
Micro(u) == [kind |-> "micro", u |-> u]
\* a list and a map (what they hold plays no part in the cleaning)
List(tag) == [kind |-> "list", tag |-> tag]
Map(tag) == [kind |-> "map", tag |-> tag]

IsNumber(raw) == raw.kind \in {"num", "micro"}
\* isinstance(raw, (int, float)): bool is a subclass of int
IsIntOrFloat(raw) == raw.kind \in {"num", "micro", "bool"}
\* unhashable values: `raw in SENTINELS` raises TypeError on them
Unhashable(raw) == raw.kind \in {"list", "map"}

\* the value of a number in units of 10^-5 (True is 1, False is 0)
Scaled(raw) ==
    CASE raw.kind = "num"   -> raw.n * 1000
      [] raw.kind = "micro" -> raw.u
      [] raw.kind = "bool"  -> IF raw.b THEN 100000 ELSE 0

\* raw == 0
EqualsZero(raw) == IsIntOrFloat(raw) /\ Scaled(raw) = 0

\* the last w decimal digits of n, with leading zeros
RECURSIVE Pad(_, _)
Pad(n, w) == IF w = 0 THEN "" ELSE Pad(n \div 10, w - 1) \o ToString(n % 10)

\* the fraction digits of a float's string: trailing zeros dropped, one
\* digit at least
RECURSIVE FracDigits(_, _)
FracDigits(n, w) ==
    IF w > 1 /\ n % 10 = 0 THEN FracDigits(n \div 10, w - 1) ELSE Pad(n, w)

\* str(x) of the float x = v * 10^-5, v >= 0 (below 10^-4 Python writes
\* the exponent)
FloatStr(v) ==
    IF v \in 1..9 THEN ToString(v) \o "e-05"
    ELSE ToString(v \div 100000) \o "." \o FracDigits(v % 100000, 5)

\* product.get(field, default)
Get(product, field, default) ==
    IF field \in DOMAIN product THEN product[field] ELSE default

(***************************************************************************)
(* clean_product_data                                                      *)
(***************************************************************************)
\* schema_defaults, lines 1020-1067, by the branch that cleans the field
NUMERIC_FIELDS ==
    {"unit_volume_ml", "units_per_case", "cases_per_pallet", "quantity_case",
     "price_per_unit", "price_per_case", "price_per_unit_eur",
     "price_per_case_eur", "min_order_quantity_case", "moq_cases"}

NUMERIC_NEVER_ZERO ==
    {"unit_volume_ml", "units_per_case", "cases_per_pallet", "quantity_case",
     "min_order_quantity_case", "moq_cases"}

\* the fields whose default is "" and that fall to the last branch
StringFields ==
    {"uid", "product_key", "processing_version", "brand", "product_name",
     "product_reference", "category", "sub_category", "origin_country",
     "vintage", "packaging", "bottle_or_can_type", "incoterm", "location",
     "port", "lead_time", "supplier_name", "supplier_reference",
     "supplier_country", "offer_date", "valid_until", "date_received",
     "source_channel", "source_filename", "source_message_id",
     "best_before_date", "label_language", "ean_code", "gift_box",
     "custom_status"}

SchemaFields ==
    NUMERIC_FIELDS \cup StringFields
    \cup {"alcohol_percent", "currency", "refillable_status",
          "confidence_score", "error_flags", "needs_manual_review"}

\* schema_defaults[field]
SchemaDefault(field) ==
    CASE field \in NUMERIC_FIELDS         -> None
      [] field = "confidence_score"      -> Num(0)
      [] field = "error_flags"           -> List("empty")
      [] field = "needs_manual_review"   -> Bool(FALSE)
      [] OTHER                           -> Str("")

SentinelStrings ==
    {"Not Found", "not found", "NOT FOUND", "null", "NULL", "N/A", "n/a",
     "na", "NA", "none", "None", "NONE", ""}

\* raw in SENTINELS
InSentinels(raw) ==
    raw = None \/ (raw.kind = "str" /\ raw.s \in SentinelStrings)

\* str(raw): a number that is whole is a JSON integer
ToStr(raw) ==
    CASE raw.kind = "str"   -> raw.s
      [] raw.kind = "num"   -> IF raw.n % 100 = 0 THEN ToString(raw.n \div 100)
                               ELSE FloatStr(raw.n * 1000)
      [] raw.kind = "micro" -> FloatStr(raw.u)
      [] raw.kind = "bool"  -> IF raw.b THEN "True" ELSE "False"
      [] OTHER              -> "None"

\* str.strip().upper() on the strings the candidates use
StripUpper(s) ==
    CASE s = "usd"            -> "USD"
      [] s = "euro "          -> "EURO"
      [] s = " eur"           -> "EUR"
      [] s = "ref"            -> "REF"
      [] s = " rf "           -> "RF"
      [] s = "Refillable"     -> "REFILLABLE"
      [] s = "nrf"            -> "NRF"
      [] s = "Non-Refillable" -> "NON-REFILLABLE"
      [] s = "non refillable" -> "NON REFILLABLE"
      [] s = "can"            -> "CAN"
      [] s = "Bottle"         -> "BOTTLE"
      [] s = "banana"         -> "BANANA"
      [] s = "Null"           -> "NULL"
      [] s = "True"           -> "TRUE"
      [] s = "False"          -> "FALSE"
      [] s = " 40% "          -> "40%"
      [] s = " "              -> ""
      [] s = "1e-05"          -> "1E-05"
      [] OTHER                -> s

\* float(s.replace(',', '.')): None stands for ValueError
ParseFloat(s) ==
    CASE s = "12,5" -> Num(1250)
      [] s = "12.5" -> Num(1250)
      [] s = "10"   -> Num(1000)
      [] s = "40"   -> Num(4000)
      [] s = "0.4"  -> Num(40)
      [] s = "0.0"  -> Num(0)
      [] s = "0,0"  -> Num(0)
      [] s = "0"    -> Num(0)
      [] OTHER      -> None

\* lines 1091-1102
CleanNumeric(field, raw) ==
    IF InSentinels(raw) \/ EqualsZero(raw) \/ raw = Str("0") THEN None
    ELSE LET fval == IF IsNumber(raw) THEN raw ELSE ParseFloat(ToStr(raw))
         IN  IF fval = None THEN None
             ELSE IF field \in NUMERIC_NEVER_ZERO /\ Scaled(fval) = 0 THEN None
             ELSE fval

\* lines 1159-1167
CleanCurrency(raw) ==
    IF InSentinels(raw) THEN ""
    ELSE LET val == StripUpper(ToStr(raw))
         IN  IF val \in {"EURO", "EUROS", "€"} THEN "EUR" ELSE val

\* any value outside the whitelist taken for non-refillable
CleanRefillable_DefaultNrf(raw) ==
    IF InSentinels(raw) THEN ""
    ELSE LET val == StripUpper(ToStr(raw))
         IN  IF val \in {"RF", "REF", "REFILLABLE"} THEN "REF" ELSE "NRF"

\* lines 1145-1156
CleanRefillable(raw) ==
    IF InSentinels(raw) THEN ""
    ELSE LET val == StripUpper(ToStr(raw))
         IN  IF val \in {"RF", "REF", "REFILLABLE"} THEN "REF"
             ELSE IF val \in {"NRF", "NON-REFILLABLE", "NON REFILLABLE"}
                  THEN "NRF"
             ELSE ""

\* lines 1170-1171
CleanList(raw) == IF raw.kind = "list" THEN raw ELSE List("empty")

\* bool(raw)
Truthy(raw) ==
    CASE raw.kind = "bool"  -> raw.b
      [] raw.kind = "str"   -> raw.s # ""
      [] raw.kind = "num"   -> raw.n # 0
      [] raw.kind = "micro" -> raw.u # 0
      [] OTHER              -> FALSE

\* lines 1178-1182: float(raw), the default on ValueError and TypeError
CleanFloat(raw) ==
    CASE IsNumber(raw)     -> raw
      [] raw.kind = "bool" -> IF raw.b THEN Num(100) ELSE Num(0)
      [] raw.kind = "str"  ->
            IF raw.s \in {"12,5", "0,0"} \/ ParseFloat(raw.s) = None
            THEN Num(0) ELSE ParseFloat(raw.s)
      [] OTHER             -> Num(0)

\* lines 1173-1175
CleanBool(raw) == IF InSentinels(raw) THEN FALSE ELSE Truthy(raw)

\* lines 1185-1186
CleanString(raw) == IF InSentinels(raw) THEN "" ELSE ToStr(raw)

\* str.strip() on the strings the candidates use
Strip(s) ==
    CASE s = " 40% " -> "40%"
      [] s = " "     -> ""
      [] s = " rf "  -> "rf"
      [] s = "euro " -> "euro"
      [] s = " eur"  -> "eur"
      [] OTHER       -> s

\* the percentage of the float fval = v * 10^-5, lines 1112-1122 and
\* 1130-1138; round(fval * 100, 2) is (v + 5) \div 10 hundredths of a
\* percent (no candidate sits on a rounding tie)
FormatAlcohol(v) ==
    IF v = 0 THEN ""
    ELSE IF v < 100000
         THEN LET pct == (v + 5) \div 10 IN
                IF pct % 100 = 0 THEN ToString(pct \div 100) \o "%"
                ELSE ToString(pct \div 100) \o "." \o FracDigits(pct % 100, 2)
                     \o "%"
    ELSE IF v % 100000 = 0 THEN ToString(v \div 100000) \o "%"
    ELSE FloatStr(v) \o "%"

\* the strings that end with '%' once stripped: those of the candidates
\* and those the cleaning itself writes for the numbers of the candidates
PercentStrings ==
    {"40%", " 40% ", "0.0%", "0,0%", "00%", "4,5%"}
    \cup ({FormatAlcohol(v) : v \in {1, 400, 1000, 37500, 40000, 100000,
                                     1000000, 1250000, 4000000}} \ {""})

\* lines 1105-1142
CleanAlcohol(raw) ==
    IF InSentinels(raw) \/ EqualsZero(raw) \/ raw \in {Str("0"), Str("0%")}
    THEN ""
    ELSE IF raw.kind = "str" /\ raw.s \in PercentStrings THEN Strip(raw.s)
    ELSE IF IsIntOrFloat(raw) THEN FormatAlcohol(Scaled(raw))
    ELSE IF raw.kind = "str"
         THEN IF Strip(raw.s) = "" THEN ""
              ELSE LET fval == ParseFloat(Strip(raw.s)) IN
                     IF fval = None THEN "" ELSE FormatAlcohol(Scaled(fval))
    ELSE ""

\* one pass of the loop of lines 1087-1186
CleanField(field, raw) ==
    CASE field \in NUMERIC_FIELDS        -> CleanNumeric(field, raw)
      [] field = "alcohol_percent"      -> CleanAlcohol(raw)
      [] field = "refillable_status"    -> CleanRefillable(raw)
      [] field = "currency"             -> CleanCurrency(raw)
      [] field = "error_flags"          -> CleanList(raw)
      [] field = "needs_manual_review"  -> CleanBool(raw)
      [] field = "confidence_score"     -> CleanFloat(raw)
      [] OTHER                          -> CleanString(raw)

\* the branches that start with `raw in SENTINELS`: every field but the
\* list field and the float field
FieldRaises(field, raw) ==
    field \notin {"error_flags", "confidence_score"} /\ Unhashable(raw)

\* the characters of the product names the candidates use (any other
\* name is taken as one piece without a character the derivation touches)
Chars(name) ==
    CASE name = "Gin A"     -> <<"G", "i", "n", " ", "A">>
      [] name = "Rum B"     -> <<"R", "u", "m", " ", "B">>
      [] name = "Vodka C"   -> <<"V", "o", "d", "k", "a", " ", "C">>
      [] name = "J.W. Dant" -> <<"J", ".", "W", ".", " ", "D", "a", "n", "t">>
      [] name = "O'Hara"    -> <<"O", "'", "H", "a", "r", "a">>
      [] name = "Gin/Tonic" -> <<"G", "i", "n", "/", "T", "o", "n", "i", "c">>
      [] name = "R&B"       -> <<"R", "&", "B">>
      [] name = " "         -> <<" ">>
      [] OTHER              -> <<name>>

LowerCase ==
    <<"a", "b", "c", "d", "e", "f", "g", "h", "i", "j", "k", "l", "m", "n",
      "o", "p", "q", "r", "s", "t", "u", "v", "w", "x", "y", "z">>

UpperCase ==
    <<"A", "B", "C", "D", "E", "F", "G", "H", "I", "J", "K", "L", "M", "N",
      "O", "P", "Q", "R", "S", "T", "U", "V", "W", "X", "Y", "Z">>

\* str.upper() on one character
Upper(c) ==
    IF \E i \in 1..26 : LowerCase[i] = c
    THEN UpperCase[CHOOSE i \in 1..26 : LowerCase[i] = c]
    ELSE c

\* "".join(chars)
RECURSIVE Join(_)
Join(chars) == IF chars = << >> THEN "" ELSE Head(chars) \o Join(Tail(chars))

\* the derivation with the case of the name kept
DeriveKey_NoUpper(name) ==
    Join([i \in 1..Len(Chars(name)) |->
            LET c == Chars(name)[i] IN
              IF c \in {" ", "/", "&"} THEN "_"
              ELSE IF c \in {".", "'"} THEN ""
              ELSE c])

\* lines 1190-1195: ' ', '/' and '&' become '_', '.' and "'" are dropped,
\* the rest is upper-cased
DeriveKey(name) ==
    Join([i \in 1..Len(Chars(name)) |->
            LET c == Chars(name)[i] IN
              IF c \in {" ", "/", "&"} THEN "_"
              ELSE IF c \in {".", "'"} THEN ""
              ELSE Upper(c)])

\* an exception that leaves the function
Raised(exc) == [raised |-> exc]
IsRaised(r) == DOMAIN r = {"raised"}

\* lines 1188-1197: the key is derived when it is missing and there is a
\* name, and the record is returned
WithProductKey(cleaned) ==
    IF cleaned["product_key"] = "" /\ cleaned["product_name"] # ""
    THEN [cleaned EXCEPT !["product_key"] = DeriveKey(cleaned["product_name"])]
    ELSE cleaned

clean_product_data(product) ==
    IF \E field \in SchemaFields :
          FieldRaises(field, Get(product, field, SchemaDefault(field)))
    THEN Raised("TypeError")
    ELSE WithProductKey(
             [field \in SchemaFields |->
                CleanField(field, Get(product, field, SchemaDefault(field)))])

\* [clean_product_data(p) for p in products]
CleanAll(products) ==
    [i \in 1..Len(products) |-> clean_product_data(products[i])]

(***************************************************************************)
(* Currency conversion                                                     *)
(***************************************************************************)
\* what the rate lookup does on one call: a rate in hundredths, or a
\* failure (the call raises, the content does not decode)
RateOutcomes ==
    {[ok |-> TRUE, rate |-> 90], [ok |-> FALSE]}

\* lines 21-53
get_exchange_rate_to_eur(currency, outcome) ==
    IF currency \in {"Not Found", "", "EUR"} THEN 100
    ELSE IF outcome.ok THEN outcome.rate ELSE 100

\* round(x / 100) to the nearest integer, for x >= 0
RoundDiv100(x) == (x + 50) \div 100

\* lines 56-66
convert_price_to_eur(price, currency, exchange_rate) ==
    IF price = None \/ price = Num(0) THEN None
    ELSE Num(RoundDiv100(price.n * exchange_rate))

\* an iteration that converts the unit price and skips the case price
ConvertProduct_UnitOnly(product, outcome) ==
    IF product.currency \in {"", "EUR"}
    THEN [product EXCEPT !.price_per_unit_eur = product.price_per_unit,
                         !.price_per_case_eur = product.price_per_case]
    ELSE LET rate == get_exchange_rate_to_eur(product.currency, outcome)
         IN  [product EXCEPT
                !.price_per_unit_eur =
                    IF product.price_per_unit \notin {None, Num(0)}
                    THEN convert_price_to_eur(product.price_per_unit,
                                              product.currency, rate)
                    ELSE @]

\* one iteration of the conversion loop, lines 688-700 and 855-867
ConvertProduct(product, outcome) ==
    IF product.currency \in {"", "EUR"}
    THEN [product EXCEPT !.price_per_unit_eur = product.price_per_unit,
                         !.price_per_case_eur = product.price_per_case]
    ELSE LET rate == get_exchange_rate_to_eur(product.currency, outcome)
         IN  [product EXCEPT
                !.price_per_unit_eur =
                    IF product.price_per_unit \notin {None, Num(0)}
                    THEN convert_price_to_eur(product.price_per_unit,
                                              product.currency, rate)
                    ELSE @,
                !.price_per_case_eur =
                    IF product.price_per_case \notin {None, Num(0)}
                    THEN convert_price_to_eur(product.price_per_case,
                                              product.currency, rate)
                    ELSE @]

\* the whole loop: outcomes[i] is what the lookup does for product i
ConvertAll(products, outcomes) ==
    [i \in 1..Len(products) |-> ConvertProduct(products[i], outcomes[i])]

\* the calls of get_exchange_rate_to_eur that reach its external call
\* (line 694 / 861 / 895 and lines 23-36), in order: the record the loop is
\* at, the currency asked for and what the lookup did
RateLookups(products, outcomes) ==
    SelectSeq([i \in 1..Len(products) |->
                 [record   |-> i,
                  currency |-> products[i].currency,
                  outcome  |-> outcomes[i]]],
              LAMBDA c : c.currency \notin {"", "EUR", "Not Found"})

\* the second pass of the fallback and image paths, lines 892-901
ReconvertProduct(product, outcome) ==
    IF product.currency \in {"", "EUR"} THEN product
    ELSE ConvertProduct(product, outcome)

ReconvertAll(products, outcomes) ==
    [i \in 1..Len(products) |-> ReconvertProduct(products[i], outcomes[i])]

(***************************************************************************)
(* Planner: units of work                                                  *)
(***************************************************************************)
Min(a, b) == IF a < b THEN a ELSE b

\* lines 646-651: windows [start, end) of the text
TextChunks(len) ==
    IF len > CHUNK_SIZE
    THEN [i \in 1..((len + CHUNK_SIZE - 1) \div CHUNK_SIZE) |->
            [start |-> (i - 1) * CHUNK_SIZE,
             end   |-> Min(i * CHUNK_SIZE, len)]]
    ELSE <<[start |-> 0, end |-> len]>>

\* batch_end taken as batch_start + batch_size, not clamped to total_rows
Batches_NoClamp(total_rows) ==
    [i \in 1..((total_rows + batch_size - 1) \div batch_size) |->
        [start |-> (i - 1) * batch_size,
         end   |-> (i - 1) * batch_size + batch_size]]

\* lines 747-749: row ranges [batch_start, batch_end)
Batches(total_rows) ==
    [i \in 1..((total_rows + batch_size - 1) \div batch_size) |->
        [start |-> (i - 1) * batch_size,
         end   |-> Min((i - 1) * batch_size + batch_size, total_rows)]]

Units(mode, size) ==
    IF mode = "text" THEN TextChunks(size) ELSE Batches(size)

\* document sizes drawn: around the unit boundaries
TextLengths ==
    {k * CHUNK_SIZE + d : k \in 0..(MaxUnits - 1), d \in {0, 1}}
RowTotals ==
    {k * batch_size + d : k \in 0..(MaxUnits - 1), d \in {1, batch_size}}

(***************************************************************************)
(* Interpretation service: answers drawn for one unit                      *)
(***************************************************************************)
\* candidate maps the service returns
Gin == [product_name |-> Str("Gin A"), currency |-> Str("usd"),
        price_per_unit |-> Num(1000), price_per_case |-> Num(12000)]
Rum == [product_name |-> Str("Rum B"), currency |-> Str("euro "),
        price_per_unit |-> Str("12,5"), price_per_case |-> Num(0)]
Blank == [product_name |-> Str("Not Found"), price_per_unit |-> None]
Vodka == [product_name |-> Str("Vodka C"), currency |-> Str("usd"),
          price_per_unit |-> None, price_per_unit_eur |-> Num(900)]

\* the call raises (transport error)
ServiceError == [kind |-> "error"]
\* the call returns message.content
Content(form, products) ==
    [kind |-> "content", form |-> form, products |-> products]

\* forms of message.content:
\*   none        None
\*   empty       ""
\*   garbage     text without any brace
\*   object      {"products": [...]}
\*   noproducts  a JSON object without the key products
\*   nullproducts  {"products": null}
\*   list        a bare JSON list [...] of candidate maps
\*   wrapped     text followed by {"products": [...]}
\*   truncated   {"products": [...]} cut off inside the record that follows
\*               the listed, fully closed, records
UnitResponses ==
    {ServiceError,
     Content("none", << >>), Content("empty", << >>),
     Content("garbage", << >>), Content("noproducts", << >>),
     Content("nullproducts", << >>),
     Content("object", << >>), Content("object", <<Gin>>),
     Content("object", <<Rum, Blank>>),
     Content("object", <<Vodka>>),
     Content("list", <<Gin>>), Content("wrapped", <<Rum>>),
     Content("truncated", <<Gin>>)}

(***************************************************************************)
(* One unit of extract_offer, lines 656-684                                *)
(***************************************************************************)
\* lines 674-675 and 819-820: a candidate clean_product_data raises on
\* ends the try block before anything is appended
Appended(cleaned) ==
    IF \E i \in 1..Len(cleaned) : IsRaised(cleaned[i])
    THEN [exc |-> "TypeError", products |-> << >>]
    ELSE [exc |-> "none", products |-> cleaned]

\* the try block, lines 659-676: the exception it ends with ("none" when it
\* runs to its end) and the cleaned records it appends
TextTry(resp) ==
    IF resp.kind = "error"
    THEN [exc |-> "APIError", products |-> << >>]
    ELSE CASE resp.form = "none" ->
                \* len(content) on None
                [exc |-> "TypeError", products |-> << >>]
           [] resp.form \in {"empty", "garbage", "wrapped", "truncated"} ->
                \* json.loads(content)
                [exc |-> "JSONDecodeError", products |-> << >>]
           [] resp.form = "list" ->
                \* result.get on a list
                [exc |-> "AttributeError", products |-> << >>]
           [] resp.form = "nullproducts" ->
                \* iteration over None
                [exc |-> "TypeError", products |-> << >>]
           [] resp.form = "noproducts" ->
                [exc |-> "none", products |-> << >>]
           [] resp.form = "object" ->
                Appended(CleanAll(resp.products))

\* only json.JSONDecodeError is caught: anything else leaves the loop
TextUnit_JsonOnly(resp) ==
    LET t == TextTry(resp) IN
      CASE t.exc = "none" ->
             [products |-> t.products, log |-> << >>, raised |-> FALSE]
        [] t.exc = "JSONDecodeError" ->
             [products |-> << >>, log |-> <<"json_decode_error">>,
              raised |-> FALSE]
        [] OTHER ->
             [products |-> << >>, log |-> << >>, raised |-> TRUE]

\* the whole iteration, lines 658-684: what it appends and logs, and
\* whether an exception leaves it
TextUnit(resp) ==
    LET t == TextTry(resp) IN
      CASE t.exc = "none" ->
             [products |-> t.products, log |-> << >>, raised |-> FALSE]
        [] t.exc = "JSONDecodeError" ->
             \* except json.JSONDecodeError, lines 678-680
             [products |-> << >>, log |-> <<"json_decode_error">>,
              raised |-> FALSE]
        [] OTHER ->
             \* except Exception, lines 681-684
             [products |-> << >>, log |-> <<"error">>, raised |-> FALSE]

(***************************************************************************)
(* One batch of extract_from_file, lines 763-847                           *)
(***************************************************************************)
\* the braces of a truncated products object, from its first brace on:
\* the outer one, a pair for each closed record, the one of the cut record
RECURSIVE Pairs(_)
Pairs(n) == IF n = 0 THEN << >> ELSE <<"{", "}">> \o Pairs(n - 1)

Braces(resp) == <<"{">> \o Pairs(Len(resp.products)) \o <<"{">>

\* the scan of lines 799-806 from brace i on: the brace at which
\* close_b == open_b, or 0 when the text ends before that
RECURSIVE BalancePoint(_, _, _, _)
BalancePoint(braces, i, open_b, close_b) ==
    IF i > Len(braces) THEN 0
    ELSE IF braces[i] = "{"
         THEN BalancePoint(braces, i + 1, open_b + 1, close_b)
         ELSE IF close_b + 1 = open_b THEN i
              ELSE BalancePoint(braces, i + 1, open_b, close_b + 1)

\* the try block, lines 764-821
TabularTry(resp) ==
    IF resp.kind = "error"
    THEN [exc |-> "APIError", products |-> << >>]
    ELSE CASE resp.form = "none" ->
                [exc |-> "TypeError", products |-> << >>]
           [] resp.form \in {"empty", "garbage"} ->
                \* no brace to repair from; json.loads raises
                [exc |-> "JSONDecodeError", products |-> << >>]
           [] resp.form = "wrapped" ->
                \* ends with a brace: no repair; json.loads raises
                [exc |-> "JSONDecodeError", products |-> << >>]
           [] resp.form = "truncated" ->
                \* does not end with a brace: the repair scans, lines
                \* 795-808. Without a cut the text stays as it is and
                \* json.loads raises; a cut ends at the brace that closes
                \* the outer object, with the records before it
                LET cut == BalancePoint(Braces(resp), 1, 0, 0) IN
                  IF cut = 0
                  THEN [exc |-> "JSONDecodeError", products |-> << >>]
                  ELSE Appended(CleanAll(SubSeq(resp.products, 1,
                                                (cut - 2) \div 2)))
           [] resp.form = "list" ->
                \* does not end with a brace: the repair cuts the text to
                \* its first balanced object, a candidate map without
                \* the key products (an empty list has no brace and
                \* decodes to a list)
                [exc |-> "none", products |-> << >>]
           [] resp.form = "nullproducts" ->
                \* iteration over None
                [exc |-> "TypeError", products |-> << >>]
           [] resp.form = "noproducts" ->
                [exc |-> "none", products |-> << >>]
           [] resp.form = "object" ->
                Appended(CleanAll(resp.products))

\* the salvage of lines 825-842: the records of the first match of the
\* pattern \{.*\} that decodes to an object with the key products (the one
\* match in a truncated object runs from its first brace to its last
\* closing brace and does not decode)
Salvage(resp) ==
    IF resp.form = "wrapped"
    THEN Appended(CleanAll(resp.products)).products ELSE << >>

\* the whole iteration, lines 763-847
TabularUnit(resp) ==
    LET t == TabularTry(resp) IN
      CASE t.exc = "none" ->
             [products |-> t.products, log |-> << >>, raised |-> FALSE]
        [] t.exc = "JSONDecodeError" ->
             \* except json.JSONDecodeError, lines 823-843
             [products |-> Salvage(resp), log |-> <<"json_decode_error">>,
              raised |-> FALSE]
        [] OTHER ->
             \* except Exception, lines 845-847
             [products |-> << >>, log |-> <<"error">>, raised |-> FALSE]

LogEntries(where, unit, kinds) ==
    [i \in 1..Len(kinds) |-> [where |-> where, unit |-> unit, what |-> kinds[i]]]

(***************************************************************************)
(* Orchestrator actions                                                    *)
(***************************************************************************)
\* a document arrives: extract_offer(text) or the Excel branch of
\* extract_from_file; the answers of the service are fixed here
ExtractBegin ==
    /\ x_pc = "idle"
    /\ \E mode \in {"text", "tabular"} :
         \E size \in (IF mode = "text" THEN TextLengths ELSE RowTotals) :
           \E oracle \in [1..Len(Units(mode, size)) -> UnitResponses] :
              /\ x_mode' = mode
              /\ x_size' = size
              /\ x_oracle' = oracle
    /\ x_pc' = "loop"
    /\ UNCHANGED <<x_idx, all_products, processed_row_count, x_log,
                   x_fallback, x_ret, x_calls, x_rate_calls, job_vars,
                   webhook_vars, clean_vars>>

\* the chunk's records put in front of the aggregate instead of behind it
ExtractOfferChunk_Prepend ==
    /\ x_pc = "loop"
    /\ x_mode = "text"
    /\ x_idx < Len(TextChunks(x_size))
    /\ LET u == TextUnit(x_oracle[x_idx + 1]) IN
         /\ all_products' = u.products \o all_products
         /\ x_log' = x_log \o LogEntries("chunk", x_idx + 1, u.log)
    /\ x_calls' = Append(x_calls, [where |-> "chunk", unit |-> x_idx + 1])
    /\ x_idx' = x_idx + 1
    /\ x_pc' = IF TextUnit(x_oracle[x_idx + 1]).raised THEN "raised" ELSE x_pc
    /\ UNCHANGED <<x_mode, x_size, x_oracle, processed_row_count,
                   x_fallback, x_ret, x_rate_calls, job_vars, webhook_vars, clean_vars>>

\* extract_offer, lines 656-684: one chunk
ExtractOfferChunk ==
    /\ x_pc = "loop"
    /\ x_mode = "text"
    /\ x_idx < Len(TextChunks(x_size))
    /\ LET u == TextUnit(x_oracle[x_idx + 1]) IN
         /\ all_products' = all_products \o u.products
         /\ x_log' = x_log \o LogEntries("chunk", x_idx + 1, u.log)
    /\ x_calls' = Append(x_calls, [where |-> "chunk", unit |-> x_idx + 1])
    /\ x_idx' = x_idx + 1
    /\ x_pc' = IF TextUnit(x_oracle[x_idx + 1]).raised THEN "raised" ELSE x_pc
    /\ UNCHANGED <<x_mode, x_size, x_oracle, processed_row_count,
                   x_fallback, x_ret, x_rate_calls, job_vars, webhook_vars, clean_vars>>

\* extract_offer, lines 686-703: conversion pass and return
ExtractOfferFinish ==
    /\ x_pc = "loop"
    /\ x_mode = "text"
    /\ x_idx = Len(TextChunks(x_size))
    /\ \E outcomes \in [1..Len(all_products) -> RateOutcomes] :
         LET converted == ConvertAll(all_products, outcomes) IN
           /\ all_products' = converted
           /\ x_rate_calls' = x_rate_calls \o RateLookups(all_products, outcomes)
           /\ x_ret' = [products |-> converted]
    /\ x_pc' = "returned"
    /\ UNCHANGED <<x_mode, x_size, x_oracle, x_idx, processed_row_count,
                   x_log, x_fallback, x_calls, job_vars, webhook_vars, clean_vars>>

\* extract_from_file, lines 747-847: one batch of rows
ExtractFileBatch ==
    /\ x_pc = "loop"
    /\ x_mode = "tabular"
    /\ x_idx < Len(Batches(x_size))
    /\ LET u == TabularUnit(x_oracle[x_idx + 1])
           b == Batches(x_size)[x_idx + 1]
       IN
         /\ all_products' = all_products \o u.products
         /\ x_log' = x_log \o LogEntries("batch", x_idx + 1, u.log)
         /\ processed_row_count' = processed_row_count + (b.end - b.start)
    /\ x_calls' = Append(x_calls, [where |-> "batch", unit |-> x_idx + 1])
    /\ x_idx' = x_idx + 1
    /\ x_pc' = IF TabularUnit(x_oracle[x_idx + 1]).raised
               THEN "raised" ELSE x_pc
    /\ UNCHANGED <<x_mode, x_size, x_oracle, x_fallback, x_ret,
                   x_rate_calls, job_vars, webhook_vars, clean_vars>>

\* the conversion and return taken whether or not products were extracted
ExtractFileFinish_NoGuard ==
    /\ x_pc = "loop"
    /\ x_mode = "tabular"
    /\ x_idx = Len(Batches(x_size))
    /\ \E outcomes \in [1..Len(all_products) -> RateOutcomes] :
         LET converted == ConvertAll(all_products, outcomes) IN
           /\ all_products' = converted
           /\ x_rate_calls' = x_rate_calls \o RateLookups(all_products, outcomes)
           /\ x_ret' = [products             |-> converted,
                        total_products       |-> Len(converted),
                        file_type            |-> "excel",
                        processed_in_batches |-> TRUE,
                        batches_processed    |->
                            (x_size + batch_size - 1) \div batch_size,
                        original_rows        |-> x_size]
    /\ x_pc' = "returned"
    /\ UNCHANGED <<x_mode, x_size, x_oracle, x_idx, processed_row_count,
                   x_log, x_fallback, x_calls, job_vars, webhook_vars, clean_vars>>

\* extract_from_file, lines 853-876: products were extracted
ExtractFileFinish ==
    /\ x_pc = "loop"
    /\ x_mode = "tabular"
    /\ x_idx = Len(Batches(x_size))
    /\ all_products # << >>
    /\ \E outcomes \in [1..Len(all_products) -> RateOutcomes] :
         LET converted == ConvertAll(all_products, outcomes) IN
           /\ all_products' = converted
           /\ x_rate_calls' = x_rate_calls \o RateLookups(all_products, outcomes)
           /\ x_ret' = [products             |-> converted,
                        total_products       |-> Len(converted),
                        file_type            |-> "excel",
                        processed_in_batches |-> TRUE,
                        batches_processed    |->
                            (x_size + batch_size - 1) \div batch_size,
                        original_rows        |-> x_size]
    /\ x_pc' = "returned"
    /\ UNCHANGED <<x_mode, x_size, x_oracle, x_idx, processed_row_count,
                   x_log, x_fallback, x_calls, job_vars, webhook_vars, clean_vars>>

\* extract_from_file, lines 877-902: nothing was extracted; the first rows
\* (at most 10) go through extract_offer as one chunk of text, and the
\* result is converted a second time
ExtractFileFallback ==
    /\ x_pc = "loop"
    /\ x_mode = "tabular"
    /\ x_idx = Len(Batches(x_size))
    /\ all_products = << >>
    /\ \E resp \in UnitResponses :
         LET u == TextUnit(resp) IN
         \E first \in [1..Len(u.products) -> RateOutcomes],
            second \in [1..Len(u.products) -> RateOutcomes] :
              /\ x_fallback' = resp
              /\ x_calls' = Append(x_calls,
                                   [where |-> "fallback_chunk", unit |-> 1])
              /\ x_rate_calls' =
                    x_rate_calls
                    \o RateLookups(u.products, first)
                    \o RateLookups(ConvertAll(u.products, first), second)
              /\ x_log' = x_log \o LogEntries("fallback_chunk", 1, u.log)
              /\ x_ret' = [products |->
                             ReconvertAll(ConvertAll(u.products, first),
                                          second)]
    /\ x_pc' = "returned"
    /\ UNCHANGED <<x_mode, x_size, x_oracle, x_idx, all_products,
                   processed_row_count, job_vars, webhook_vars, clean_vars>>

InitExtract == Init

NextExtract ==
    \/ ExtractBegin
    \/ ExtractOfferChunk
    \/ ExtractOfferFinish
    \/ ExtractFileBatch
    \/ ExtractFileFinish
    \/ ExtractFileFallback

SpecExtract == InitExtract /\ [][NextExtract]_vars

(***************************************************************************)
(* clean_product_data on one candidate map                                 *)
(***************************************************************************)
\* values the interpretation service puts into a candidate map
RawValues ==
    {None, Bool(TRUE), Bool(FALSE), List("flags"), Map("nested"),
     Num(0), Num(40), Num(100), Num(1250), Num(4000), Micro(37500), Micro(1)}
    \cup {Str(s) : s \in
            {"", " ", "Not Found", "null", "Null", "N/A", "none",
             "0", "0%", "0.0", "0.0%", "40%", " 40% ", "40", "0.4", "12,5",
             "ref", " rf ", "Refillable", "nrf", "Non-Refillable",
             "non refillable", "can", "Bottle", "banana", "usd", "euro "}}

\* the fields the candidate maps set: one or more of every branch of the
\* cleaning loop
ProbeFields ==
    {"brand", "unit_volume_ml", "price_per_unit", "alcohol_percent",
     "refillable_status", "currency", "error_flags", "needs_manual_review",
     "confidence_score"}

\* candidate maps that name the product, with and without a key
NamedMaps ==
    LET Names == {"Gin A", "J.W. Dant", "O'Hara", "Gin/Tonic", "R&B", " ",
                  "", "Not Found"}
        Keys  == {"", "Not Found", "my key.1"}
    IN  {("product_name" :> Str(n)) : n \in Names}
        \cup {("product_name" :> Str(n)) @@ ("product_key" :> Str(k)) :
                 n \in Names, k \in Keys}
        \cup {("product_key" :> Str(k)) : k \in Keys}

\* the candidate maps with at most MaxKeys keys, and those of NamedMaps
CandidateMaps ==
    UNION {[D -> RawValues] :
             D \in {K \in SUBSET ProbeFields : Cardinality(K) <= MaxKeys}}
    \cup NamedMaps

\* cleaned = clean_product_data(candidate)
CleanCall ==
    /\ c_in = None
    /\ \E candidate \in CandidateMaps :
         /\ c_in' = [map |-> candidate]
         /\ c_out' = clean_product_data(candidate)
    /\ UNCHANGED <<job_vars, webhook_vars, extract_vars>>

InitClean == Init

NextClean == CleanCall

SpecClean == InitClean /\ [][NextClean]_vars

(***************************************************************************)
(* Properties of the job lifecycle (checked under Spec)                    *)
(***************************************************************************)
\* the job's status has been written as done by some execution of
\* process_offer: its stored result is the offer
DoneWritten(j) == JOB_RESULTS[j].kind = "offer"

\* the task of job j has started executing at least once
TaskStarted(j) == pc[j] \notin {"idle", "ingest_delay", "queued"}

\* C1: once a job's status has been written as done, every later attempt
\* to write failed for it (the except branch of process_offer, the handler
\* of process_document_task) leaves the status other than failed and the
\* stored result as it was before the attempt.
C1_TerminalExclusivity ==
    [][\A j \in Jobs :
         (DoneWritten(j) /\ (ProcessOfferFail(j) \/ TaskHandler(j)))
            => (JOB_STATUS'[j] # "failed"
                /\ JOB_RESULTS'[j] = JOB_RESULTS[j])]_vars

\* C2: a job whose status is done or failed keeps that status in every
\* later step, task retries included.
C2_OneDirectional ==
    [][\A j \in Jobs :
         JOB_STATUS[j] \in Terminal => JOB_STATUS'[j] = JOB_STATUS[j]]_vars

\* C7: when every attempt of the job_summary of a done job fails, the step
\* that ends the delivery leaves status and result as they were, ends the
\* task normally and schedules no retry; a task that returned after a
\* failed delivery of a "done" summary still shows the job done with its
\* offer stored.
C7_DeliveryFailureKeepsJob ==
    /\ [](\A j \in Jobs :
            (pc[j] = "returned" /\ wh_result[j] = "false"
                /\ wh_posts[j][1].payload.data.status = "done")
               => (JOB_STATUS[j] = "done" /\ DoneWritten(j)))
    /\ [][\A j \in Jobs :
            (pc[j] = "t_result" /\ JOB_STATUS[j] = "done"
                /\ wh_result'[j] = "false" /\ wh_posts'[j] # wh_posts[j])
               => (/\ JOB_STATUS'[j] = "done"
                   /\ JOB_RESULTS'[j] = JOB_RESULTS[j]
                   /\ pc'[j] = "returned"
                   /\ retries'[j] = retries[j]
                   /\ countdowns'[j] = countdowns[j])]_vars

C7_Witness ==
    \E j \in Jobs :
        /\ pc[j] = "returned"
        /\ wh_result[j] = "false"
        /\ Len(wh_posts[j]) = max_retries
        /\ JOB_STATUS[j] = "done"
        /\ DoneWritten(j)

\* C8: the status is processing when the job is enqueued, and from the
\* moment the task has started the status of the job is never missing and
\* never "queued", whatever the interleaving.
C8_ProcessingBeforeEnqueue ==
    \A j \in Jobs :
        /\ pc[j] = "queued" => JOB_STATUS[j] = "processing"
        /\ TaskStarted(j) => JOB_STATUS[j] \notin {"none", "queued"}

\* the task is executing and has not yet written anything itself
C8_Witness ==
    \E j \in Jobs :
        pc[j] = "t_status" /\ retries[j] = 0 /\ JOB_STATUS[j] = "processing"

\* C9: an exception inside process_offer, or a payload that fails
\* validation, sets the status to failed and passes to the handler of the
\* task, which schedules a retry.
C9_ErrorReraisedAndRetried ==
    [][\A j \in Jobs :
         /\ ProcessOfferFail(j)
              => (JOB_STATUS'[j] = "failed" /\ pc'[j] = "handler")
         /\ (TaskValidate(j) /\ ~payload_ok[j]) => pc'[j] = "handler"
         /\ (TaskHandler(j) /\ ~payload_ok[j] /\ retries[j] < task_max_retries)
              => (JOB_STATUS'[j] = "failed" /\ pc'[j] = "retry_wait")]_vars

Called == w_in # None

\* an attempt fails: the transport raises or answers outside the 2xx class
AttemptFails(resp) == resp.exc \/ resp.status_code \notin 200..299

\* an attempt answers in the 2xx class
Is2xx(resp) == ~resp.exc /\ resp.status_code \in 200..299

\* an attempt answers 200, 201 or 202
PlainSuccess(resp) == ~resp.exc /\ resp.status_code \in 200..202

\* C4: when the first two attempts fail and the third succeeds, the call
\* returns true after exactly 3 POSTs, the last POST is the successful one
\* and all three carry the same delivery_id.
C4_RetryTwiceThenSuccess ==
    (/\ Called
     /\ AttemptFails(w_in.outs[1])
     /\ AttemptFails(w_in.outs[2])
     /\ PlainSuccess(w_in.outs[3]))
       => /\ w_out.result = TRUE
          /\ ~w_out.raised
          /\ Len(w_out.posts) = 3
          /\ \A i \in 1..3 :
               /\ w_out.posts[i].response = w_in.outs[i]
               /\ w_out.posts[i].payload.delivery_id
                    = w_out.posts[1].payload.delivery_id

C4_Witness ==
    /\ Called
    /\ w_in.delivery_id = None
    /\ w_in.outs[1].exc
    /\ w_in.outs[2].status_code = 500
    /\ w_in.outs[3].status_code = 200
    /\ w_out.result = TRUE
    /\ Len(w_out.posts) = 3

\* C5: the call never raises; it returns false only after exactly 3
\* attempts none of which was acknowledged; attempt n+1 is made 5*n seconds
\* after attempt n, and no wait follows the last attempt.
C5_NeverRaisesLinearBackoff ==
    Called =>
        /\ ~w_out.raised
        /\ w_out.result \in BOOLEAN
        /\ w_out.result = FALSE =>
              /\ Len(w_out.posts) = 3
              /\ \A i \in 1..3 : ~PlainSuccess(w_out.posts[i].response)
        /\ Len(w_out.posts) \in 1..3
        /\ Len(w_out.sleeps) = Len(w_out.posts) - 1
        /\ \A n \in 1..(Len(w_out.posts) - 1) :
              /\ w_out.sleeps[n] = 5 * n
              /\ w_out.posts[n + 1].at - w_out.posts[n].at = 5 * n

C5_Witness ==
    /\ Called
    /\ w_out.result = FALSE
    /\ Len(w_out.posts) = 3
    /\ w_out.sleeps = <<5, 10>>
    /\ w_in.outs[1].exc

\* C6: an attempt answered with any status of the 2xx class is the last
\* attempt of the call, and the call returns true.
C6_Any2xxIsSuccess ==
    Called =>
        \A i \in DOMAIN w_out.posts :
            Is2xx(w_out.posts[i].response)
               => (w_out.result = TRUE /\ i = Len(w_out.posts))


(***************************************************************************)
(* Properties of the extraction orchestrator (checked under SpecExtract)   *)
(***************************************************************************)
\* the service's answer for a unit yields no usable data: transport error,
\* empty content, non-JSON content
FailureResp(resp) ==
    \/ resp.kind = "error"
    \/ resp.kind = "content" /\ resp.form \in {"none", "empty", "garbage", "wrapped"}

\* the answer is a JSON object (with or without the key products)
OkResp(resp) ==
    resp.kind = "content" /\ resp.form \in {"object", "noproducts"}

NumUnits == Len(Units(x_mode, x_size))

\* of the N units of the document, exactly unit k fails
ExactlyOneFails(k) ==
    /\ k \in 1..NumUnits
    /\ FailureResp(x_oracle[k])
    /\ \A i \in (1..NumUnits) \ {k} : OkResp(x_oracle[i])

\* a record without the two fields the conversion pass writes
Extracted(record) ==
    [product_name   |-> record.product_name,
     currency       |-> record.currency,
     price_per_unit |-> record.price_per_unit,
     price_per_case |-> record.price_per_case]

ExtractedAll(records) ==
    [i \in 1..Len(records) |-> Extracted(records[i])]

\* the records of units 1..n other than unit k, in unit order
RECURSIVE RecordsOfOthers(_, _)
RecordsOfOthers(n, k) ==
    IF n = 0 THEN << >>
    ELSE RecordsOfOthers(n - 1, k)
         \o (IF n = k THEN << >>
             ELSE ExtractedAll(CleanAll(x_oracle[n].products)))

\* s is t with some elements left out
RECURSIVE IsSubSeq(_, _)
IsSubSeq(s, t) ==
    IF s = << >> THEN TRUE
    ELSE IF t = << >> THEN FALSE
    ELSE IF Head(s) = Head(t) THEN IsSubSeq(Tail(s), Tail(t))
    ELSE IsSubSeq(s, Tail(t))

\* the per-unit error list of the returned value (the dict the code
\* returns is read by key; a missing key is an empty list)
ReturnedUnitErrors(ret) ==
    IF "perUnitErrors" \in DOMAIN ret THEN ret.perUnitErrors ELSE << >>

\* the units the loop logged an error for
LoggedUnits ==
    {x_log[i].unit : i \in {n \in 1..Len(x_log) : x_log[n].where # "fallback_chunk"}}

\* C3: when exactly unit k of the N units of a document fails, the
\* aggregate of the orchestrator's loop contains all records of the other
\* N-1 units and the returned per-unit error list holds exactly one
\* UnitError, for unit k.
C3_PartialFailureIsolation ==
    \A k \in 1..MaxUnits :
        (x_pc = "returned" /\ ExactlyOneFails(k)) =>
            /\ IsSubSeq(RecordsOfOthers(NumUnits, k), ExtractedAll(all_products))
            /\ Len(ReturnedUnitErrors(x_ret)) = 1
            /\ ReturnedUnitErrors(x_ret)[1].unitIndex = k

\* C3, the part the code keeps: the other units' records are all in the
\* aggregate, in unit order; the failure of unit k is in the log only
C3_OthersKeptFailureLogged ==
    \A k \in 1..MaxUnits :
        (x_pc = "returned" /\ ExactlyOneFails(k)) =>
            /\ IsSubSeq(RecordsOfOthers(NumUnits, k), ExtractedAll(all_products))
            /\ LoggedUnits = {k}
            /\ ReturnedUnitErrors(x_ret) = << >>

\* a document of several units returned with exactly one failed unit and
\* records of another unit in the aggregate
C3_OthersKeptReached ==
    /\ x_pc = "returned"
    /\ NumUnits > 1
    /\ \E k \in 1..NumUnits : ExactlyOneFails(k)
    /\ all_products # << >>


(***************************************************************************)
(* Result retrieval (checked under Spec)                                   *)
(***************************************************************************)
\* C11: retrieval answers "not ready" whenever the job's status is not
\* terminal; for a failed job the retrieved result is an error description
\* without product data; for a done job it is the stored product data.
C11_ResultRetrieval ==
    \A j \in Jobs :
        LET r == get_result(JOB_RESULTS, j) IN
          /\ JOB_STATUS[j] \notin Terminal => r.kind = "not_ready"
          /\ JOB_STATUS[j] = "failed" =>
                /\ r.kind = "data"
                /\ r.data[1].kind = "error"
          /\ JOB_STATUS[j] = "done" =>
                /\ r.kind = "data"
                /\ r.data[1].kind = "offer"


\* the records unit i contributes: what the unit step of the mode makes of
\* the service's answer for that unit
UnitRecords(i) ==
    IF x_mode = "text" THEN TextUnit(x_oracle[i]).products
    ELSE TabularUnit(x_oracle[i]).products

\* the per-unit record lists of units 1..n, concatenated in unit order
RECURSIVE ConcatUnits(_)
ConcatUnits(n) ==
    IF n = 0 THEN << >> ELSE ConcatUnits(n - 1) \o ExtractedAll(UnitRecords(n))

\* the requests of the unit loop (without the one of the text fallback)
LoopCalls == SelectSeq(x_calls, LAMBDA c : c.where # "fallback_chunk")

\* C12: the units of a document go to the interpretation service one at a
\* time in planner order, each exactly once, a unit only when all units
\* before it are finished; the aggregate is the concatenation, in unit
\* order, of the per-unit record lists.
C12_SequentialInOrder ==
    x_pc # "idle" =>
        /\ LoopCalls = [i \in 1..x_idx |->
                          [where |-> IF x_mode = "text" THEN "chunk" ELSE "batch",
                           unit  |-> i]]
        /\ ExtractedAll(all_products) = ConcatUnits(x_idx)
        /\ x_pc = "returned" =>
              /\ x_idx = NumUnits
              /\ ExtractedAll(x_ret.products) =
                    IF x_fallback = None THEN ConcatUnits(NumUnits)
                    ELSE ExtractedAll(TextUnit(x_fallback).products)

\* a document returned of which two different units contributed different
\* records
C12_Witness ==
    /\ x_pc = "returned"
    /\ \E i, k \in 1..NumUnits :
          /\ i < k
          /\ UnitRecords(i) # << >>
          /\ UnitRecords(k) # << >>
          /\ UnitRecords(i) # UnitRecords(k)


(***************************************************************************)
(* Properties of the currency pass (checked under SpecExtract)             *)
(***************************************************************************)
\* the distinct non-blank, non-EUR currency values of the returned records
CurrenciesOf(products) ==
    {products[i].currency : i \in 1..Len(products)} \ {"", "EUR"}

\* how many times the rate lookup was called for currency c
LookupCount(c) == Len(SelectSeq(x_rate_calls, LAMBDA x : x.currency = c))

\* C13: in the currency pass the rate lookup is called exactly once for
\* each distinct non-blank, non-EUR currency of the aggregate, however many
\* records carry it.
C13_OneLookupPerCurrency ==
    x_pc = "returned" =>
        /\ \A c \in CurrenciesOf(x_ret.products) : LookupCount(c) = 1
        /\ \A i \in 1..Len(x_rate_calls) :
              x_rate_calls[i].currency \in CurrenciesOf(x_ret.products)


\* the rate lookup of the external collaborator failed
LookupFailed(call) == ~call.outcome.ok

\* C14: when the rate lookup for a record's currency fails, the rate used
\* is 1.0 (the EUR prices equal the source prices), the extraction still
\* returns, and the record's needs_manual_review flag is true after the
\* currency pass.
C14_RateFailureFlagsReview ==
    (x_pc = "returned" /\ x_fallback = None) =>
        \A n \in 1..Len(x_rate_calls) :
            LookupFailed(x_rate_calls[n]) =>
                LET rec == x_ret.products[x_rate_calls[n].record] IN
                  /\ rec.price_per_unit # None =>
                        rec.price_per_unit_eur = rec.price_per_unit
                  /\ rec.price_per_case # None =>
                        rec.price_per_case_eur = rec.price_per_case
                  /\ rec.needs_manual_review = TRUE


\* the rate the lookup gave the conversion of record i
RateUsed(i) ==
    LET n == CHOOSE n \in 1..Len(x_rate_calls) : x_rate_calls[n].record = i
    IN  IF x_rate_calls[n].outcome.ok THEN x_rate_calls[n].outcome.rate ELSE 100

\* what the EUR field of a price must be after the pass, at the given rate
ExpectedEur(price, rate) ==
    IF price \in {None, Num(0), Str("")} THEN None
    ELSE Num((price.n * rate + 50) \div 100)

\* C15: after the currency pass, a record with blank or EUR currency has
\* its EUR fields equal to the source prices; any other record has each EUR
\* field equal to round(price * rate, 2) when the source price is a
\* non-zero number and null when the source price is null, zero or empty,
\* whatever the candidate map supplied for the EUR field.
C15_EurFieldsAfterPass ==
    (x_pc = "returned" /\ x_fallback = None) =>
        \A i \in 1..Len(x_ret.products) :
            LET rec == x_ret.products[i] IN
              IF rec.currency \in {"", "EUR"}
              THEN /\ rec.price_per_unit_eur = rec.price_per_unit
                   /\ rec.price_per_case_eur = rec.price_per_case
              ELSE /\ rec.price_per_unit_eur =
                        ExpectedEur(rec.price_per_unit, RateUsed(i))
                   /\ rec.price_per_case_eur =
                        ExpectedEur(rec.price_per_case, RateUsed(i))


(***************************************************************************)
(* Properties of the response parser (checked under SpecExtract)           *)
(***************************************************************************)
\* the answer holds no decodable JSON object with a products list
NoProductsList(resp) ==
    \/ resp.kind = "error"
    \/ resp.form \in {"none", "empty", "garbage", "list", "noproducts",
                      "nullproducts"}

\* C16: no answer of the interpretation service makes the per-unit step
\* raise; a unit whose answer holds no decodable JSON object with a
\* products list contributes no records, and the loop goes on to the
\* next unit.
C16_ParseNeverRaises ==
    /\ x_pc # "raised"
    /\ x_pc # "idle" =>
          \A i \in 1..x_idx :
              NoProductsList(x_oracle[i]) => UnitRecords(i) = << >>
    /\ x_pc = "returned" => Len(LoopCalls) = NumUnits

\* a unit with an undecodable answer was followed by a unit that
\* contributed records
C16_Witness ==
    /\ x_pc = "returned"
    /\ NumUnits = 2
    /\ NoProductsList(x_oracle[1])
    /\ x_oracle[1].kind = "content"
    /\ UnitRecords(2) # << >>
    /\ all_products # << >>


(***************************************************************************)
(* Properties of clean_product_data (checked under SpecClean)              *)
(***************************************************************************)
\* clean_product_data was called
Cleaned == c_in # None

\* C17: clean_product_data is total: for every candidate map, values of
\* unexpected types included, it returns without raising a record whose
\* keys are exactly the schema fields.
C17_CleanIsTotal ==
    Cleaned => (~IsRaised(c_out) /\ DOMAIN c_out = SchemaFields)
\* the string-valued fields of a cleaned record
RecordStringFields ==
    StringFields \cup {"alcohol_percent", "currency", "refillable_status"}

\* s is one of the words "not found", "n/a", "null", "none" in one of the
\* casings a value of a candidate map or its upper-casing takes
IsSentinelWord(s) ==
    s \in {"not found", "Not Found", "Not found", "NOT FOUND",
           "n/a", "N/A", "N/a", "null", "Null", "NULL",
           "none", "None", "NONE"}

\* C18: in the record clean_product_data returns, no string field holds a
\* sentinel word ("not found", "n/a", "null", "none" in any casing) and no
\* never-zero numeric field equals 0.
C18_NoSentinelNoZero ==
    (Cleaned /\ ~IsRaised(c_out)) =>
        /\ \A f \in RecordStringFields : ~IsSentinelWord(c_out[f])
        /\ \A f \in NUMERIC_NEVER_ZERO :
              c_out[f] = None \/ Scaled(c_out[f]) # 0

\* C18, the numeric half alone
C18_NeverZeroHolds ==
    (Cleaned /\ ~IsRaised(c_out)) =>
        \A f \in NUMERIC_NEVER_ZERO :
            c_out[f] = None \/ Scaled(c_out[f]) # 0
\* the number a numeric or numeric-looking alcohol value stands for, in
\* units of 10^-5, and -1 for any other value
AlcoholNumber(raw) ==
    CASE IsNumber(raw) -> Scaled(raw)
      [] raw.kind = "str" /\ raw.s \in {"40%", " 40% "} -> 4000000
      [] raw.kind = "str" /\ raw.s \in {"0%", "0.0%"}   -> 0
      [] raw.kind = "str" /\ ParseFloat(Strip(raw.s)) # None ->
            Scaled(ParseFloat(Strip(raw.s)))
      [] OTHER -> -1

\* the law: blank for 0, x * 100 percent below 1, x percent from 1 on
AlcoholLaw(v) ==
    IF v = 0 THEN ""
    ELSE LET pct == IF v < 100000 THEN v * 100 ELSE v IN
           IF pct % 100000 = 0 THEN ToString(pct \div 100000) \o "%"
           ELSE FloatStr(pct) \o "%"

\* renderings of zero percent
ZeroPercent == {"0%", "0.0%", "0,0%", "00%", "0.00%"}

\* C19: for a numeric or numeric-looking alcohol_percent x the cleaned
\* value is blank when x is 0, x * 100 followed by "%" when 0 < x < 1 and
\* x followed by "%" when x >= 1; it is never a rendering of zero percent.
C19_AlcoholFractionLaw ==
    (/\ Cleaned
     /\ ~IsRaised(c_out)
     /\ "alcohol_percent" \in DOMAIN c_in.map
     /\ AlcoholNumber(c_in.map["alcohol_percent"]) >= 0) =>
        /\ c_out["alcohol_percent"] =
              AlcoholLaw(AlcoholNumber(c_in.map["alcohol_percent"]))
        /\ c_out["alcohol_percent"] \notin ZeroPercent
\* the candidate values that read REF, RF or REFILLABLE once trimmed and
\* upper-cased, and those that read NRF, NON-REFILLABLE or NON REFILLABLE
RefInputs == {Str("ref"), Str(" rf "), Str("Refillable")}
NrfInputs == {Str("nrf"), Str("Non-Refillable"), Str("non refillable")}

\* C20: the refillable_status of a cleaned record is "", "REF" or "NRF";
\* it is "REF" exactly for the inputs REF, RF, REFILLABLE (trimmed, any
\* casing), "NRF" exactly for NRF, NON-REFILLABLE, NON REFILLABLE; an
\* absent key or any other value gives "".
C20_RefillableWhitelist ==
    (Cleaned /\ ~IsRaised(c_out)) =>
        LET given == "refillable_status" \in DOMAIN c_in.map
            out   == c_out["refillable_status"]
        IN  /\ out \in {"", "REF", "NRF"}
            /\ out = "REF" <=>
                  (given /\ c_in.map["refillable_status"] \in RefInputs)
            /\ out = "NRF" <=>
                  (given /\ c_in.map["refillable_status"] \in NrfInputs)

\* a record cleaned from a candidate whose refillable_status is the
\* container type CAN
C20_Witness ==
    /\ Cleaned
    /\ ~IsRaised(c_out)
    /\ "refillable_status" \in DOMAIN c_in.map
    /\ c_in.map["refillable_status"] = Str("can")
    /\ c_out["refillable_status"] = ""

(***************************************************************************)
(* Properties of the aggregate (checked under SpecExtract)                 *)
(***************************************************************************)
\* C21: no record whose product_name and product_key are both blank after
\* normalization is in the aggregate the orchestrator returns.
C21_BlankRecordsDropped ==
    x_pc = "returned" =>
        \A i \in 1..Len(x_ret.products) :
            ~(/\ x_ret.products[i]["product_name"] = ""
              /\ x_ret.products[i]["product_key"] = "")

(***************************************************************************)
(* Properties of the planner (checked under SpecExtract)                   *)
(***************************************************************************)
\* the ranges [start, end) of `units` are consecutive, start at 0, end at
\* `size` and hold at most `width` positions each
ConsecutiveCover(units, size, width) ==
    /\ Len(units) >= 1
    /\ units[1].start = 0
    /\ units[Len(units)].end = size
    /\ \A i \in 1..(Len(units) - 1) : units[i].end = units[i + 1].start
    /\ \A i \in 1..Len(units) : units[i].end - units[i].start <= width

\* every position 0..size-1 lies in exactly one of the ranges
ExactlyOnce(units, size) ==
    \A pos \in 0..(size - 1) :
        Cardinality({i \in 1..Len(units) :
                        units[i].start <= pos /\ pos < units[i].end}) = 1

\* C22: the units partition the document: text chunks are consecutive
\* windows of at most 25000 characters that together are the text (one
\* unit when the text is not longer than a window); batches are
\* consecutive groups of at most 6 rows and every row index is in exactly
\* one batch.
C22_UnitsPartitionDocument ==
    x_pc # "idle" =>
        IF x_mode = "text"
        THEN /\ ConsecutiveCover(TextChunks(x_size), x_size, 25000)
             /\ x_size <= 25000 => Len(TextChunks(x_size)) = 1
             /\ \A i \in 1..Len(TextChunks(x_size)) :
                   Len(TextChunks(x_size)) > 1 =>
                       TextChunks(x_size)[i].end > TextChunks(x_size)[i].start
        ELSE /\ ConsecutiveCover(Batches(x_size), x_size, 6)
             /\ ExactlyOnce(Batches(x_size), x_size)

\* a table whose last batch is shorter than the others
C22_Witness ==
    /\ x_pc = "returned"
    /\ x_mode = "tabular"
    /\ Len(Batches(x_size)) = 2
    /\ x_size % 6 # 0
    /\ processed_row_count = x_size

(***************************************************************************)
(* Properties of the text fallback (checked under SpecExtract)             *)
(***************************************************************************)
\* how often the text fallback was run
FallbackCalls ==
    Len(SelectSeq(x_calls, LAMBDA c : c.where = "fallback_chunk"))

\* batch i ended with an exception and nothing was salvaged from it
UnitFailed(i) ==
    TabularTry(x_oracle[i]).exc # "none" /\ UnitRecords(i) = << >>

\* batch i was processed without an exception
UnitSucceeded(i) == TabularTry(x_oracle[i]).exc = "none"

\* C23: in tabular mode the text fallback is run when every unit failed,
\* at most once per call, and not when at least one unit was processed
\* successfully.
C23_FallbackOnlyWhenAllFailed ==
    (x_pc = "returned" /\ x_mode = "tabular") =>
        /\ (\A i \in 1..NumUnits : UnitFailed(i)) => FallbackCalls = 1
        /\ FallbackCalls <= 1
        /\ (\E i \in 1..NumUnits : UnitSucceeded(i)) => FallbackCalls = 0

\* C23 as the code has it: the fallback is run, once, exactly when the
\* batch loop ended without any record, which is the case when every unit
\* failed and also when units were processed and yielded nothing; it is
\* never run in text mode.
C23_FallbackWhenNothingExtracted ==
    x_pc = "returned" =>
        IF x_mode = "tabular"
        THEN /\ FallbackCalls = IF ConcatUnits(NumUnits) = << >> THEN 1 ELSE 0
             /\ (\A i \in 1..NumUnits : UnitFailed(i)) => FallbackCalls = 1
             /\ (x_fallback # None) <=> (FallbackCalls = 1)
        ELSE FallbackCalls = 0 /\ x_fallback = None

\* a table of which one batch failed and the other was processed and
\* yielded no record, returned through the fallback
C23_Witness ==
    /\ x_pc = "returned"
    /\ x_mode = "tabular"
    /\ NumUnits = 2
    /\ UnitFailed(1)
    /\ UnitSucceeded(2)
    /\ FallbackCalls = 1

(***************************************************************************)
(* Properties of the order of aggregation and conversion (SpecExtract)     *)
(***************************************************************************)
\* the records of units 1..n as clean_product_data returned them
RECURSIVE CleanedUnits(_)
CleanedUnits(n) ==
    IF n = 0 THEN << >> ELSE CleanedUnits(n - 1) \o UnitRecords(n)

\* the source price is one the pass converts
Convertible(price) == price \notin {None, Num(0)}

\* C24: currency conversion is a separate pass after full aggregation: as
\* long as a unit is still to be dispatched no rate has been looked up and
\* every record of the aggregate is as the normalization left it; when the
\* loop-path call returns, every record has had both of its EUR fields
\* handled by the pass under one rule and one rate, none with the unit
\* price converted and the case price not.
C24_ConversionAfterAggregation ==
    /\ (x_pc = "loop" \/ (x_pc # "idle" /\ x_idx < NumUnits)) =>
          /\ x_rate_calls = << >>
          /\ x_ret = None
          /\ all_products = CleanedUnits(x_idx)
    /\ (x_pc = "returned" /\ x_fallback = None) =>
          /\ x_idx = NumUnits
          /\ Len(x_ret.products) = Len(CleanedUnits(NumUnits))
          /\ \A i \in 1..Len(x_ret.products) :
               LET rec  == x_ret.products[i]
                   base == CleanedUnits(NumUnits)[i]
               IN
                 /\ Extracted(rec) = Extracted(base)
                 /\ IF rec.currency \in {"", "EUR"}
                    THEN /\ rec.price_per_unit_eur = rec.price_per_unit
                         /\ rec.price_per_case_eur = rec.price_per_case
                    ELSE /\ rec.price_per_unit_eur =
                              IF Convertible(rec.price_per_unit)
                              THEN ExpectedEur(rec.price_per_unit, RateUsed(i))
                              ELSE base.price_per_unit_eur
                         /\ rec.price_per_case_eur =
                              IF Convertible(rec.price_per_case)
                              THEN ExpectedEur(rec.price_per_case, RateUsed(i))
                              ELSE base.price_per_case_eur

\* two chunks, each with a record priced per unit and per case in USD, and
\* both EUR fields of both records converted by the pass after the loop
C24_Witness ==
    /\ x_pc = "returned"
    /\ x_mode = "text"
    /\ NumUnits = 2
    /\ Len(x_ret.products) = 2
    /\ Len(x_rate_calls) = 2
    /\ \A i \in 1..2 :
         /\ x_ret.products[i].currency = "USD"
         /\ x_ret.products[i].price_per_unit = Num(1000)
         /\ x_ret.products[i].price_per_case = Num(12000)
         /\ x_ret.products[i].price_per_unit_eur \in {Num(900), Num(1000)}
         /\ x_ret.products[i].price_per_case_eur \in {Num(10800), Num(12000)}

(***************************************************************************)
(* Properties of the truncation repair (checked under SpecExtract)         *)
(***************************************************************************)
\* the answer to batch i is a products object cut off after at least one
\* fully closed record
Truncated(i) ==
    /\ x_oracle[i].kind = "content"
    /\ x_oracle[i].form = "truncated"
    /\ Len(x_oracle[i].products) >= 1

\* C25: a batch whose answer is a well-formed products object cut off in
\* the products array after at least one fully closed record still
\* contributes the fully closed leading records to the aggregate.
C25_TruncationRepairKeepsLeading ==
    (x_pc = "loop" /\ x_mode = "tabular") =>
        \A i \in 1..x_idx :
            Truncated(i) =>
                SubSeq(all_products, Len(CleanedUnits(i - 1)) + 1,
                       Len(CleanedUnits(i))) = CleanAll(x_oracle[i].products)

(***************************************************************************)
(* Properties of the parse of well-formed answers (SpecExtract)            *)
(***************************************************************************)
\* the answer to unit i is a JSON document of one of the two shapes, none
\* of whose candidates makes clean_product_data raise
WellFormed(i) ==
    /\ x_oracle[i].kind = "content"
    /\ x_oracle[i].form \in {"object", "list"}
    /\ \A k \in 1..Len(x_oracle[i].products) :
          ~IsRaised(clean_product_data(x_oracle[i].products[k]))

\* C26: a well-formed answer gives the same candidate list in text mode
\* and in tabular mode: the products list of an object with the key
\* products, and the list itself of a bare list; the unit contributes the
\* cleaned candidates of that list.
C26_SameCandidatesBothModes ==
    x_pc = "loop" =>
        \A i \in 1..x_idx :
            WellFormed(i) =>
                /\ TextUnit(x_oracle[i]).products =
                       TabularUnit(x_oracle[i]).products
                /\ SubSeq(all_products, Len(CleanedUnits(i - 1)) + 1,
                          Len(CleanedUnits(i))) = CleanAll(x_oracle[i].products)

(***************************************************************************)
(* Idempotence of the normalization (checked under SpecClean)              *)
(***************************************************************************)
\* a cleaned record as the candidate map of a second call: its strings,
\* numbers, flag and list as JSON values
AsCandidate(rec) ==
    [field \in DOMAIN rec |->
       CASE field = "needs_manual_review" -> Bool(rec[field])
         [] field \in NUMERIC_FIELDS \cup {"confidence_score", "error_flags"}
              -> rec[field]
         [] OTHER -> Str(rec[field])]

\* C27: normalization is idempotent: cleaning a cleaned record gives the
\* same record, field by field.
C27_CleanIsIdempotent ==
    (c_in # None /\ ~IsRaised(c_out)) =>
        clean_product_data(AsCandidate(c_out)) = c_out

\* the outcome of the rate lookup for record i in the first (pass = 0) and
\* the second (pass = 1) conversion of the fallback's records
FallbackOutcome(i, pass) ==
    LET n == Len(x_rate_calls) \div 2
        S == {k \in 1..n : x_rate_calls[k + pass * n].record = i}
    IN  IF S = {} THEN [ok |-> FALSE]
        ELSE x_rate_calls[(CHOOSE k \in S : TRUE) + pass * n].outcome

\* the conversion half of C27 holds: on the fallback path, when the second
\* pass gets the rates of the first, the records it returns are those of
\* one pass.
C27_SecondPassUnchanged ==
    (x_pc = "returned" /\ x_fallback # None) =>
        LET base == TextUnit(x_fallback).products IN
          (\A i \in 1..Len(base) : FallbackOutcome(i, 0) = FallbackOutcome(i, 1))
             => \A i \in 1..Len(base) :
                   x_ret.products[i] = ConvertProduct(base[i], FallbackOutcome(i, 0))

(***************************************************************************)
(* Properties of the retried delivery task (checked under SpecRetryTask)   *)
(***************************************************************************)
\* C28: every delivery attempt of one logical delivery of a job carries
\* the same delivery_id, the attempts made by task-level retries of
\* send_webhook_with_retry included.
C28_StableIdAcrossTaskRetries ==
    \A i, j \in 1..Len(r_posts) :
        r_posts[i].delivery_id = r_posts[j].delivery_id

\* within one execution of the task the delivery_id does not change
C28_StableIdWithinExecution ==
    \A i, j \in 1..Len(r_posts) :
        r_posts[i].retries = r_posts[j].retries =>
            r_posts[i].delivery_id = r_posts[j].delivery_id

LawKey(name, dot) ==
    Join([i \in 1..Len(Chars(name)) |->
            LET c == Chars(name)[i] IN
              CASE c \in {" ", "/", "&"} -> "_"
                [] c = "."               -> dot
                [] c = "'"               -> ""
                [] OTHER                 -> Upper(c)])

\* the cleaned name and key of the candidate before the derivation
CleanedName == CleanString(Get(c_in.map, "product_name", Str("")))
CleanedKey == CleanString(Get(c_in.map, "product_key", Str("")))

\* C30: when the cleaned product_key is blank and product_name is not, the
\* derived key is the upper-cased name with every space, '/', '&' and '.'
\* replaced by an underscore and every apostrophe removed; a non-blank
\* product_key is left unchanged.
C30_DerivedKeyDotUnderscore ==
    (c_in # None /\ ~IsRaised(c_out)) =>
        c_out["product_key"] =
            IF CleanedKey = "" /\ CleanedName # ""
            THEN LawKey(CleanedName, "_") ELSE CleanedKey

\* C30 as the code has it: the full stop is removed like the apostrophe,
\* not replaced by an underscore.
C30_DerivedKeyDotRemoved ==
    (c_in # None /\ ~IsRaised(c_out)) =>
        c_out["product_key"] =
            IF CleanedKey = "" /\ CleanedName # ""
            THEN LawKey(CleanedName, "") ELSE CleanedKey

\* a name with full stops and a space, and no key: the key is derived
C30_Witness ==
    /\ c_in # None
    /\ ~IsRaised(c_out)
    /\ "product_name" \in DOMAIN c_in.map
    /\ c_in.map["product_name"] = Str("J.W. Dant")
    /\ CleanedKey = ""
    /\ c_out["product_key"] = "JW_DANT"

====
